---- MODULE Spec2Model ----
(***************************************************************************)
(* Admission decision engine of managed-cluster-validating-webhooks.      *)
(*                                                                         *)
(* One HTTP call is one admission review: a route (path) and a decoded     *)
(* JSON body (request_json).  Each handle_request is one action: it counts *)
(* the call, runs validate_request_structure, and either answers           *)
(* "Invalid request" or runs the route's policy evaluator.  get_response   *)
(* of a route can also be called on its own, as the unit tests do.         *)
(*                                                                         *)
(* JSON values: an object is a TLA+ record (a function on its keys), a     *)
(* string is a string, null is None and an array is List(<<...>>), so that *)
(* "key in dict", "x is None" and "type(x) is list" are all decidable.     *)
(*                                                                         *)
(* A second specification, PredicateSpec, calls the pure predicate         *)
(* is_request_allowed directly on arguments drawn from bounded sets.       *)
(***************************************************************************)
EXTENDS Integers, Sequences, FiniteSets, TLC

VARIABLES
  path,                      \* the route the call was sent to
  request_json,              \* the decoded body of the call
  exclusive_group_prefixes,  \* GROUP_VALIDATION_EXCLUSIVE_GROUP_PREFIXES, split on ","
  pc,                        \* "ready": call received; "done": call answered
  called,                    \* "none", "handle_request" or "get_response"
  validation,                \* what validate_request_structure did for handle_request
  entered,                   \* TRUE when the policy evaluator's code was entered
  raised,                    \* TRUE when the evaluator's try block caught an exception
  response,                  \* the verdict returned
  total,                     \* per route: the TOTAL_* counter
  denied,                    \* per route: the DENIED_* counter
  args,                      \* the arguments of a direct call of is_request_allowed
  result,                    \* what that call returned
  log,                       \* the calls handle_request has answered, oldest first
  pool                       \* the gunicorn worker processes and their counters

vars == <<path, request_json, exclusive_group_prefixes, pc, called, validation,
          entered, raised, response, total, denied, args, result, log, pool>>

(***************************************************************************)
(* Bounds of the model.                                                    *)
(***************************************************************************)
\* longest userInfo.groups list of a structurally complete payload
MaxGroups == 2

(***************************************************************************)
(* JSON and string helpers.                                                *)
(***************************************************************************)
None == [py_none |-> TRUE]
List(s) == [py_list |-> s]
EmptyDict == [k \in {} |-> k]
IsNone(v) == "py_none" \in DOMAIN v
IsList(v) == "py_list" \in DOMAIN v
Items(v) == v.py_list
IsDict(v) == "py_none" \notin DOMAIN v /\ "py_list" \notin DOMAIN v
Has(d, k) == k \in DOMAIN d
Drop(d, k) == [x \in DOMAIN d \ {k} |-> d[x]]
Range(s) == {s[i] : i \in DOMAIN s}
\* a string passed where the caller may also pass a list
Str(s) == [py_str |-> s]
IsStr(v) == "py_str" \in DOMAIN v

\* str.startswith / str.endswith
StartsWith(s, p) == Len(s) >= Len(p) /\ SubSeq(s, 1, Len(p)) = p
\* sub in s
Contains(s, sub) ==
  \E i \in 1..(Len(s) - Len(sub) + 1) : SubSeq(s, i, i + Len(sub) - 1) = sub
\* EndsWith with "p in s" for s.endswith(p)
EndsWith_Contains(s, p) == Contains(s, p)
EndsWith(s, p) == Len(s) >= Len(p) /\ SubSeq(s, Len(s) - Len(p) + 1, Len(s)) = p
\* re.match("^lit$", s): "$" matches at the end, or just before a final newline
MatchesExactly(s, lit) == s = lit \/ s = lit \o "\n"

SeqsUpTo(S, n) == UNION {[1..k -> S] : k \in 0..n}

(***************************************************************************)
(* Routes and process-wide configuration (environment defaults).           *)
(***************************************************************************)
GroupPath == "/group-validation"
NamespacePath == "/namespace-validation"
IdentityPath == "/identity-validation"
UserPath == "/user-validation"
SubscriptionPath == "/subscription-validation"
RegularUserPath == "/regular-user-validation"
Paths == {GroupPath, NamespacePath, IdentityPath, UserPath, SubscriptionPath,
          RegularUserPath}
\* routes that own a TOTAL_* / DENIED_* counter pair
CountedPaths == Paths \ {RegularUserPath}

admin_groups == <<"osd-sre-admins", "osd-sre-cluster-admins">>
identity_provider == "OpenShift_SRE"
user_suffix == "@redhat.com"
\* valid_source_namespaces with a second allow-listed namespace
valid_source_namespaces_WithOpenshift == <<"openshift-marketplace", "openshift">>
valid_source_namespaces == <<"openshift-marketplace">>
OAuthServiceAccount == "system:serviceaccount:openshift-authentication:oauth-openshift"

(***************************************************************************)
(* Outcome of a piece of Python code: a value, or an exception raised.     *)
(* denied_inc counts the DENIED_*.inc() calls executed on the way.         *)
(***************************************************************************)
NoBody == [kind |-> "none", uid |-> "", allowed |-> FALSE, message |-> ""]
Ok(body, inc) == [raised |-> FALSE, body |-> body, denied_inc |-> inc]
Raise(inc) == [raised |-> TRUE, body |-> NoBody, denied_inc |-> inc]

(***************************************************************************)
(* request_helper/responses.py                                             *)
(***************************************************************************)
\* response_base answering with an empty uid instead of the request's
response_base_EmptyUid(req, allowed, msg) ==
  IF Has(req, "uid")
  THEN Ok([kind |-> "AdmissionReview", uid |-> "", allowed |-> allowed,
           message |-> msg], 0)
  ELSE Raise(0)

\* the JSON body {apiVersion, kind, response: {uid, allowed, status: {message}}};
\* req['uid'] raises KeyError when the request carries no uid
response_base(req, allowed, msg) ==
  IF Has(req, "uid")
  THEN Ok([kind |-> "AdmissionReview", uid |-> req.uid, allowed |-> allowed,
           message |-> msg], 0)
  ELSE Raise(0)

\* 'username' in req['userInfo'] raises TypeError when userInfo is null
UsernameLookupRaises(req) == Has(req, "userInfo") /\ IsNone(req.userInfo)

\* response_allow placing the evaluator's message in the verdict
response_allow_PassesMessage(req, msg) ==
  IF UsernameLookupRaises(req) THEN Raise(0)
  ELSE response_base(req, TRUE, msg)

response_allow(req, msg) ==
  IF UsernameLookupRaises(req) THEN Raise(0)
  ELSE response_base(req, TRUE, "Access granted")

response_deny(req, msg) ==
  IF UsernameLookupRaises(req) THEN Raise(0)
  ELSE response_base(req, FALSE, msg)

response_invalid == response_base([uid |-> ""], FALSE, "Invalid request").body

(***************************************************************************)
(* request_helper/validate.py                                              *)
(***************************************************************************)
\* d[k].keys() succeeds: the key is there and its value is a dict
CanKeys(d, k) == Has(d, k) /\ IsDict(d[k])

\* The statements that can raise, in the order the code runs them: a missing
\* key (KeyError) or .keys() on a value that is no dict (AttributeError).
ValidateRaises(rj) ==
  \/ ~CanKeys(rj, "request")
  \/ ~CanKeys(rj.request, "userInfo")
  \/ ~Has(rj.request.userInfo, "groups")
  \/ ~CanKeys(rj.request, "object")
  \/ ~CanKeys(rj.request.object, "metadata")
  \/ ~CanKeys(rj.request, "resource")
  \/ ~CanKeys(rj.request, "kind")

\* ValidateValue without the check of object's "users" key
ValidateValue_NoUsers(rj) ==
  LET req == rj.request IN
  /\ Has(rj, "request")
  /\ Has(req, "kind") /\ Has(req, "resource")
  /\ Has(req, "operation") /\ Has(req, "object")
  /\ Has(req.userInfo, "username") /\ Has(req.userInfo, "groups")
  /\ IsList(req.userInfo.groups)
  /\ Has(req.userInfo, "extra")
  /\ Has(req.object, "metadata")
  /\ Has(req.object.metadata, "name")
  /\ Has(req.object.metadata, "creationTimestamp")
  /\ Has(req.object.metadata, "uid")
  /\ Has(req.resource, "group") /\ Has(req.resource, "version")
  /\ Has(req.resource, "resource")
  /\ Has(req.kind, "group") /\ Has(req.kind, "version") /\ Has(req.kind, "kind")

\* The conjunction accumulated in `valid` when nothing raised.
ValidateValue(rj) ==
  LET req == rj.request IN
  /\ Has(rj, "request")
  /\ Has(req, "kind") /\ Has(req, "resource")
  /\ Has(req, "operation") /\ Has(req, "object")
  /\ Has(req.userInfo, "username") /\ Has(req.userInfo, "groups")
  /\ IsList(req.userInfo.groups)
  /\ Has(req.userInfo, "extra")
  /\ Has(req.object, "metadata") /\ Has(req.object, "users")
  /\ Has(req.object.metadata, "name")
  /\ Has(req.object.metadata, "creationTimestamp")
  /\ Has(req.object.metadata, "uid")
  /\ Has(req.resource, "group") /\ Has(req.resource, "version")
  /\ Has(req.resource, "resource")
  /\ Has(req.kind, "group") /\ Has(req.kind, "version") /\ Has(req.kind, "kind")

validate_request_structure(rj) ==
  IF ValidateRaises(rj) THEN [raised |-> TRUE, value |-> FALSE]
  ELSE [raised |-> FALSE, value |-> ValidateValue(rj)]

\* StructureValid with the except clause leaving `valid` at its initial True
StructureValid_ExceptKeepsTrue(rj) ==
  LET v == validate_request_structure(rj) IN v.raised \/ v.value

\* handle_request: valid = validate(...), and False when it raised
StructureValid(rj) ==
  LET v == validate_request_structure(rj) IN ~v.raised /\ v.value

(***************************************************************************)
(* Shared by the evaluators: the target name, read from object, or from    *)
(* oldObject when object is null.                                          *)
(***************************************************************************)
TargetSource(body_dict) == IF IsNone(body_dict.object) THEN "oldObject" ELSE "object"

\* body_dict[src]['metadata']['name'] raises
TargetNameRaises(body_dict) ==
  \/ ~Has(body_dict, "object")
  \/ ~CanKeys(body_dict, TargetSource(body_dict))
  \/ ~CanKeys(body_dict[TargetSource(body_dict)], "metadata")
  \/ ~Has(body_dict[TargetSource(body_dict)].metadata, "name")

TargetName(body_dict) == body_dict[TargetSource(body_dict)].metadata.name

\* InAdminGroups with "every group is an admin group" for "some group is"
InAdminGroups_All(groups) ==
  groups # <<>> /\ Range(groups) \subseteq Range(admin_groups)

\* len(set(groups) & set(admin_groups)) > 0
InAdminGroups(groups) == Range(groups) \cap Range(admin_groups) # {}

\* Except with the handler answering an allow when the try block raised
Except_FailOpen(outcome) ==
  IF outcome.raised
  THEN [kind |-> "AdmissionReview", uid |-> "", allowed |-> TRUE,
        message |-> "Access granted"]
  ELSE outcome.body

\* an evaluator without its except clause: the exception leaves the handler and
\* no verdict is returned
Except_Escapes(outcome) == outcome.body

\* what the except clause of an evaluator returns
Except(outcome) == IF outcome.raised THEN response_invalid ELSE outcome.body

(***************************************************************************)
(* group_validation.py                                                     *)
(***************************************************************************)
\* MatchesProtectedGroup with re.search for re.match: "^" lost on the first branch
MatchesProtectedGroup_Unanchored(group_name) ==
  \/ Contains(group_name, "osd-sre")
  \/ MatchesExactly(group_name, "dedicated-admins")
  \/ MatchesExactly(group_name, "cluster-admins")
  \/ MatchesExactly(group_name, "layered-cs-sre-admins")

\* re.match(protected_group_regex, group_name) is not None, for the default
\* "(^osd-sre.*|^dedicated-admins$|^cluster-admins$|^layered-cs-sre-admins$)"
MatchesProtectedGroup(group_name) ==
  \/ StartsWith(group_name, "osd-sre")
  \/ MatchesExactly(group_name, "dedicated-admins")
  \/ MatchesExactly(group_name, "cluster-admins")
  \/ MatchesExactly(group_name, "layered-cs-sre-admins")

\* Python's None as returned by match_group_prefix; match_group_prefix never
\* returns "" (it skips falsy prefixes) and the caller only tests truthiness
NoPrefix == ""

\* match_group_prefix returning the last matching prefix of the list
match_group_prefix_Last(group, group_prefixes) ==
  LET hits == {i \in DOMAIN group_prefixes :
                 /\ group_prefixes[i] # ""
                 /\ StartsWith(group, group_prefixes[i])}
  IN IF hits = {} THEN NoPrefix
     ELSE group_prefixes[CHOOSE i \in hits : \A j \in hits : i >= j]

\* the first prefix of the list that is non-empty and that group starts with
match_group_prefix(group, group_prefixes) ==
  LET hits == {i \in DOMAIN group_prefixes :
                 /\ group_prefixes[i] # ""
                 /\ StartsWith(group, group_prefixes[i])}
  IN IF hits = {} THEN NoPrefix
     ELSE group_prefixes[CHOOSE i \in hits : \A j \in hits : i <= j]

\* one matched prefix per group of the list that matches any
RECURSIVE match_group_list_prefix(_, _)
match_group_list_prefix(group_list, group_prefixes) ==
  IF group_list = <<>> THEN <<>>
  ELSE LET prefix == match_group_prefix(Head(group_list), group_prefixes)
           rest == match_group_list_prefix(Tail(group_list), group_prefixes)
       IN IF prefix # NoPrefix THEN <<prefix>> \o rest ELSE rest

GroupDenyMsg(operation, group_name) ==
  "User not authorized to " \o operation \o " group " \o group_name

\* the branch of get_response taken for a protected group name
GroupProtectedBranch(body_dict, group_name, user_groups, prefixes) ==
  LET deny_msg == GroupDenyMsg(body_dict.operation, group_name)
      exclusive_prefix == match_group_prefix(group_name, prefixes)
      user_groups_prefixes ==
        match_group_list_prefix(Items(user_groups), <<exclusive_prefix>>)
  IN IF InAdminGroups(Items(user_groups))
     THEN IF exclusive_prefix # NoPrefix /\ user_groups_prefixes = <<>>
          THEN response_deny(body_dict, deny_msg)
          ELSE response_allow(body_dict,
                 body_dict.operation \o " group " \o group_name)
     ELSE response_deny(body_dict, deny_msg)

\* the try block of get_response
GroupTry(rj, prefixes) ==
  IF ~CanKeys(rj, "request") \/ TargetNameRaises(rj.request) THEN Raise(0)
  ELSE
    LET body_dict == rj.request
        group_name == TargetName(body_dict)
        userinfo == IF Has(body_dict, "userInfo") THEN body_dict.userInfo
                    ELSE EmptyDict
    IN IF IsNone(userinfo) THEN Raise(0)  \* 'groups' in None
       ELSE
         LET user_groups == IF Has(userinfo, "groups") THEN userinfo.groups
                            ELSE List(<<>>)
             admin_user == /\ Has(userinfo, "username")
                           /\ userinfo.username \in {"kube:admin", "system:admin"}
         IN IF admin_user
            THEN \* the debug line formats body_dict['operation'] first
                 IF ~Has(body_dict, "operation") THEN Raise(0)
                 ELSE response_allow(body_dict, "")
            ELSE IF MatchesProtectedGroup(group_name)
            THEN IF ~Has(body_dict, "operation") \/ ~IsList(user_groups)
                 THEN Raise(0)
                 ELSE GroupProtectedBranch(body_dict, group_name, user_groups,
                                           prefixes)
            ELSE response_allow(body_dict, "")

(***************************************************************************)
(* namespace_validation.py                                                 *)
(***************************************************************************)
\* MatchesPrivilegedServiceAccount with the namespace matched in full
MatchesPrivilegedServiceAccount_Exact(group) ==
  \E ns \in {"kube", "openshift", "default", "redhat"} :
     group = "system:serviceaccounts:" \o ns

\* re.match('^system:serviceaccounts:(kube.*|openshift.*|default|redhat.*)', group)
MatchesPrivilegedServiceAccount(group) ==
  \E ns \in {"kube", "openshift", "default", "redhat"} :
     StartsWith(group, "system:serviceaccounts:" \o ns)

\* MatchesPrivilegedNamespace with "^default" for "^default$"
MatchesPrivilegedNamespace_DefaultPrefix(requested_ns) ==
  \/ StartsWith(requested_ns, "kube")
  \/ StartsWith(requested_ns, "openshift")
  \/ StartsWith(requested_ns, "default")
  \/ StartsWith(requested_ns, "redhat")

\* re.match('(^kube.*|^openshift.*|^default$|^redhat.*)', requested_ns)
MatchesPrivilegedNamespace(requested_ns) ==
  \/ StartsWith(requested_ns, "kube")
  \/ StartsWith(requested_ns, "openshift")
  \/ MatchesExactly(requested_ns, "default")
  \/ StartsWith(requested_ns, "redhat")

\* cluster_admin_users without system:admin
cluster_admin_users_KubeOnly == {"kube:admin"}

cluster_admin_users == {"kube:admin", "system:admin"}

NamespaceDenyMsg(requested_ns) ==
  "You cannot update the privileged namespace " \o requested_ns \o "."

\* the branch of get_response taken for a privileged namespace
NamespacePrivilegedBranch(body_dict, userinfo, groups, requested_ns) ==
  IF "osd-sre-admins" \in Range(groups) \/ "osd-sre-cluster-admins" \in Range(groups)
  THEN response_allow(body_dict, "")
  ELSE IF ~Has(userinfo, "username") THEN Raise(0)
  ELSE IF userinfo.username \in cluster_admin_users
  THEN response_allow(body_dict, "")
  ELSE \* DENIED_NAMESPACE.inc() runs before response_deny
       LET r == response_deny(body_dict, NamespaceDenyMsg(requested_ns))
       IN [r EXCEPT !.denied_inc = 1]

\* LayeredAdminExempt without the test of the namespace
LayeredAdminExempt_AnyNamespace(requested_ns, groups) ==
  "layered-sre-cluster-admins" \in Range(groups)

\* re.match('^redhat.*', requested_ns) is not None and
\* "layered-sre-cluster-admins" in requester_group_memberships
LayeredAdminExempt(requested_ns, groups) ==
  /\ StartsWith(requested_ns, "redhat")
  /\ "layered-sre-cluster-admins" \in Range(groups)

\* the try block of get_response
NamespaceTry(rj) ==
  IF ~CanKeys(rj, "request") THEN Raise(0)
  ELSE
    LET body_dict == rj.request IN
    IF ~Has(body_dict, "userInfo") THEN Ok(response_invalid, 0)
    ELSE IF IsNone(body_dict.userInfo) THEN Raise(0)  \* 'groups' in None
    ELSE
      LET userinfo == body_dict.userInfo
          requester_group_memberships ==
            IF Has(userinfo, "groups") THEN userinfo.groups ELSE List(<<>>)
      IN IF ~Has(body_dict, "namespace") \/ ~IsList(requester_group_memberships)
         THEN Raise(0)
         ELSE
           LET requested_ns == body_dict.namespace
               groups == Items(requester_group_memberships)
           IN IF \E i \in DOMAIN groups : MatchesPrivilegedServiceAccount(groups[i])
              THEN response_allow(body_dict, "")
              ELSE IF LayeredAdminExempt(requested_ns, groups)
              THEN response_allow(body_dict, "")
              ELSE IF MatchesPrivilegedNamespace(requested_ns)
              THEN NamespacePrivilegedBranch(body_dict, userinfo, groups, requested_ns)
              ELSE response_allow(body_dict, "")

(***************************************************************************)
(* identity_validation.py and user_validation.py                           *)
(***************************************************************************)
\* unrestricted_users without the OAuth service account
unrestricted_users_NoOAuth == {"kube:admin", "system:admin"}
unrestricted_users == {"kube:admin", "system:admin", OAuthServiceAccount}

\* body_dict['userInfo'] / userinfo['username'] raises
UsernameRaises(body_dict) ==
  ~CanKeys(body_dict, "userInfo") \/ ~Has(body_dict.userInfo, "username")

\* set(userinfo['groups']) raises
GroupsRaises(userinfo) == ~Has(userinfo, "groups") \/ ~IsList(userinfo.groups)

\* ProtectedTargetBranch with DENIED_*.inc() ahead of response_deny
ProtectedTargetBranch_IncFirst(body_dict, what, name) ==
  IF GroupsRaises(body_dict.userInfo) \/ ~Has(body_dict, "operation") THEN Raise(0)
  ELSE IF InAdminGroups(Items(body_dict.userInfo.groups))
  THEN response_allow(body_dict, body_dict.operation \o what \o name)
  ELSE LET r == response_deny(body_dict,
                  "User not authorized to " \o body_dict.operation \o what \o name)
       IN [r EXCEPT !.denied_inc = 1]

\* the branch shared by both evaluators once the target is known to be
\* protected: allow for admin groups; otherwise deny, then DENIED_*.inc()
ProtectedTargetBranch(body_dict, what, name) ==
  IF GroupsRaises(body_dict.userInfo) \/ ~Has(body_dict, "operation") THEN Raise(0)
  ELSE IF InAdminGroups(Items(body_dict.userInfo.groups))
  THEN response_allow(body_dict, body_dict.operation \o what \o name)
  ELSE LET r == response_deny(body_dict,
                  "User not authorized to " \o body_dict.operation \o what \o name)
       IN IF r.raised THEN r ELSE [r EXCEPT !.denied_inc = 1]

\* IdentityTry with the unconditional allow ahead of the reads of the target
IdentityTry_BypassFirst(rj) ==
  IF ~CanKeys(rj, "request") THEN Raise(0)
  ELSE IF /\ ~UsernameRaises(rj.request)
          /\ rj.request.userInfo.username \in unrestricted_users
  THEN response_allow(rj.request, "")
  ELSE IF TargetNameRaises(rj.request) THEN Raise(0)
  ELSE
    LET body_dict == rj.request
        identity_name == TargetName(body_dict)
        target == body_dict[TargetSource(body_dict)]
    IN IF ~Has(target, "providerName") \/ UsernameRaises(body_dict) THEN Raise(0)
       ELSE IF target.providerName = identity_provider
       THEN ProtectedTargetBranch(body_dict, " identity ", identity_name)
       ELSE response_allow(body_dict, "")

\* the try block of identity_validation.get_response
IdentityTry(rj) ==
  IF ~CanKeys(rj, "request") \/ TargetNameRaises(rj.request) THEN Raise(0)
  ELSE
    LET body_dict == rj.request
        identity_name == TargetName(body_dict)
        target == body_dict[TargetSource(body_dict)]
    IN IF ~Has(target, "providerName") \/ UsernameRaises(body_dict) THEN Raise(0)
       ELSE IF body_dict.userInfo.username \in unrestricted_users
       THEN response_allow(body_dict, "")
       ELSE IF target.providerName = identity_provider
       THEN ProtectedTargetBranch(body_dict, " identity ", identity_name)
       ELSE response_allow(body_dict, "")

\* the second try block of user_validation.handle_request
UserTry(rj) ==
  IF ~CanKeys(rj, "request") \/ TargetNameRaises(rj.request) THEN Raise(0)
  ELSE
    LET body_dict == rj.request
        user_name == TargetName(body_dict)
    IN IF UsernameRaises(body_dict) THEN Raise(0)
       ELSE IF body_dict.userInfo.username \in unrestricted_users
       THEN response_allow(body_dict, "")
       ELSE IF EndsWith(user_name, user_suffix)
       THEN ProtectedTargetBranch(body_dict, " user ", user_name)
       ELSE response_allow(body_dict, "")

(***************************************************************************)
(* subscription_validation.py                                              *)
(***************************************************************************)
SubscriptionDenyMsg(source_namespace) ==
  "You cannot manage Subscriptions that target " \o source_namespace \o "."

\* the second try block of handle_request
SubscriptionTry(rj) ==
  IF \/ ~CanKeys(rj, "request")
     \/ ~CanKeys(rj.request, "userInfo")
     \/ ~Has(rj.request.userInfo, "groups")
     \/ ~CanKeys(rj.request, "object")
     \/ ~CanKeys(rj.request.object, "spec")
     \/ ~Has(rj.request.object.spec, "sourceNamespace")
     \/ ~IsList(rj.request.userInfo.groups)
  THEN Raise(0)
  ELSE
    LET body_dict == rj.request
        requester_group_memberships == Items(body_dict.userInfo.groups)
        source_namespace == body_dict.object.spec.sourceNamespace
    IN IF "dedicated-admins" \in Range(requester_group_memberships)
       THEN IF source_namespace \notin Range(valid_source_namespaces)
            THEN response_deny(body_dict, SubscriptionDenyMsg(source_namespace))
            ELSE response_allow(body_dict, "")
       ELSE response_allow(body_dict, "")

(***************************************************************************)
(* regular_user_validation.py                                              *)
(***************************************************************************)
\* x in admin_groupnames, a list of strings: "==" of a list and a string is False
InStringList(x, admin_groupnames) ==
  IsStr(x) /\ x.py_str \in Range(admin_groupnames)

\* is_request_allowed with the admin-group check ahead of the unauthenticated check
is_request_allowed_AdminFirst(username, groupname, admin_groupnames) ==
  IF InStringList(groupname, admin_groupnames) THEN TRUE
  ELSE IF username = "system:unauthenticated" THEN FALSE
  ELSE IF StartsWith(username, "kube:") \/ StartsWith(username, "system:") THEN TRUE
  ELSE FALSE

\* groupname is a string (the wrapper passes the target's name) or a list (the
\* unit tests pass the requester's groups)
is_request_allowed(username, groupname, admin_groupnames) ==
  IF username = "system:unauthenticated" THEN FALSE
  ELSE IF InStringList(groupname, admin_groupnames) THEN TRUE
  ELSE IF StartsWith(username, "kube:") \/ StartsWith(username, "system:") THEN TRUE
  ELSE FALSE

RegularUserDenyMsg(username, operation, kind) ==
  "Regular user '" \o username \o "' cannot " \o operation \o " kind '" \o kind \o "'."

\* the try block of get_response
RegularUserTry(rj) ==
  IF \/ ~CanKeys(rj, "request")
     \/ UsernameRaises(rj.request)
     \/ TargetNameRaises(rj.request)
  THEN Raise(0)
  ELSE
    LET body_dict == rj.request
        username == body_dict.userInfo.username
        group_name == TargetName(body_dict)
    IN IF is_request_allowed(username, Str(group_name), admin_groups)
       THEN response_allow(body_dict, "")
       ELSE IF \/ ~IsDict(body_dict.object)
               \/ ~Has(body_dict.object, "kind")
               \/ ~Has(body_dict, "operation")
       THEN Raise(0)
       ELSE response_deny(body_dict,
              RegularUserDenyMsg(username, body_dict.operation, body_dict.object.kind))

(***************************************************************************)
(* The calls the model explores: per route, every combination of the       *)
(* values below in a structurally complete AdmissionReview, and every such *)
(* review with one structural defect.                                      *)
(***************************************************************************)
Operations == {"update", "delete"}

Usernames(p) ==
  CASE p = GroupPath -> {"kube:admin", "system:admin", "alice"}
    [] p = NamespacePath -> {"kube:admin", "system:admin", "alice"}
    [] p = IdentityPath -> {"kube:admin", "system:admin", OAuthServiceAccount, "alice"}
    [] p = UserPath -> {"kube:admin", "system:admin", OAuthServiceAccount, "alice"}
    [] p = SubscriptionPath -> {"kube:admin", "alice"}
    [] p = RegularUserPath -> {"system:unauthenticated", "kube:admin",
                               "system:serviceaccount:ci:builder", "bob"}

GroupNames(p) ==
  CASE p = GroupPath -> {"osd-sre-cluster-admins", "layered-cs-sre-admins",
                         "layered-sre-cluster-admins", "test-group"}
    [] p = NamespacePath -> {"osd-sre-admins", "layered-sre-cluster-admins",
                             "dedicated-admins",
                             "system:serviceaccounts:openshift-infra",
                             "system:serviceaccounts:myproject"}
    [] p = IdentityPath -> {"osd-sre-admins", "dedicated-admins", "test-group"}
    [] p = UserPath -> {"osd-sre-cluster-admins", "dedicated-admins", "test-group"}
    [] p = SubscriptionPath -> {"dedicated-admins", "osd-sre-admins", "test-group"}
    [] p = RegularUserPath -> {"osd-sre-admins", "test-group"}

\* what the call is about: metadata.name, namespace, providerName, sourceNamespace
Subject(name, ns, prov, src) ==
  [name |-> name, ns |-> ns, prov |-> prov, src |-> src]

Subjects(p) ==
  CASE p = GroupPath ->
         {Subject(n, "", "github", "openshift-marketplace") :
            n \in {"osd-sre-test-group", "dedicated-admins", "cluster-admins",
                   "layered-cs-sre-admins", "dedicated-admins\n",
                   "dedicated-admins-old", "my-osd-sre-admins",
                   "group-we-dont-care"}}
    [] p = NamespacePath ->
         {Subject("my-object", ns, "github", "openshift-marketplace") :
            ns \in {"kube-system", "openshift", "openshifter", "default",
                    "default-user", "adefault", "redhat-example", "redhatuser",
                    "mykube-admin", "oopenshift", "logging"}}
    [] p = IdentityPath ->
         {Subject(n, "", prov, "openshift-marketplace") :
            n \in {"OpenShift_SRE:alice", "github:bob"},
            prov \in {"OpenShift_SRE", "github"}}
    [] p = UserPath ->
         {Subject(n, "", "github", "openshift-marketplace") :
            n \in {"alice@redhat.com", "@redhat.com", "bob",
                   "bob@redhat.com.example.org"}}
    [] p = SubscriptionPath ->
         {Subject("my-subscription", "my-project", "github", src) :
            src \in {"openshift-marketplace", "kube-foo", "openshift"}}
    [] p = RegularUserPath ->
         {Subject(n, "my-project", "github", "openshift-marketplace") :
            n \in {"osd-sre-admins", "osd-sre-cluster-admins", "my-configmap"}}

\* values of GROUP_VALIDATION_EXCLUSIVE_GROUP_PREFIXES after split(","); <<"">>
\* is the unset default, <<>> the default of get_response's own parameter
DefaultPrefixes == <<"">>
PrefixConfigs(p) ==
  IF p = GroupPath
  THEN {DefaultPrefixes, <<>>, <<"layered-">>, <<"group-we">>,
        <<"layered-cs", "layered-">>, <<"", "layered-", "layered-cs">>}
  ELSE {DefaultPrefixes}

\* a structurally complete AdmissionReview; on delete the API server sends
\* object = null and the resource in oldObject
Payload(u, g, subj, op) ==
  LET obj == [metadata |-> [name |-> subj.name,
                            creationTimestamp |-> "2020-01-01T00:00:00Z",
                            uid |-> "object-uid"],
              users |-> List(<<>>),
              kind |-> "Group",
              providerName |-> subj.prov,
              spec |-> [sourceNamespace |-> subj.src]]
  IN [apiVersion |-> "admission.k8s.io/v1beta1",
      kind |-> "AdmissionReview",
      request |->
        [uid |-> "testuser",
         kind |-> [group |-> "user.openshift.io", version |-> "v1", kind |-> "Group"],
         resource |-> [group |-> "user.openshift.io", version |-> "v1",
                       resource |-> "groups"],
         operation |-> op,
         namespace |-> subj.ns,
         userInfo |-> [username |-> u, groups |-> List(g), extra |-> EmptyDict],
         object |-> IF op = "delete" THEN None ELSE obj,
         oldObject |-> obj]]

RECURSIVE DropPath(_, _)
\* the JSON value d without the key at the end of path p (d itself when the
\* path leads nowhere)
DropPath(d, p) ==
  IF ~IsDict(d) \/ ~Has(d, p[1]) THEN d
  ELSE IF Len(p) = 1 THEN Drop(d, p[1])
  ELSE [d EXCEPT ![p[1]] = DropPath(d[p[1]], Tail(p))]

DropKey(at) == [kind |-> "drop", at |-> at]
\* a key missing from the resource itself: from object and from oldObject
DropTargetKey(at) == [kind |-> "drop_target", at |-> at]
SetNull(at) == [kind |-> "null", at |-> at]
OtherTopKind == [kind |-> "other_top_kind", at |-> <<>>]
\* the body decodes to JSON null
NullBody == [kind |-> "null_body", at |-> <<>>]

Defects ==
  {DropKey(<<"kind">>), OtherTopKind, NullBody, DropKey(<<"request">>)}
  \cup {DropKey(<<"request", k>>) :
          k \in {"uid", "kind", "resource", "operation", "namespace", "object",
                 "oldObject", "userInfo"}}
  \cup {DropKey(<<"request", "userInfo", k>>) : k \in {"username", "groups", "extra"}}
  \cup {SetNull(<<"request", "userInfo">>), SetNull(<<"request", "userInfo", "groups">>)}
  \cup {DropTargetKey(at) :
          at \in {<<"metadata">>, <<"users">>, <<"kind">>, <<"providerName">>,
                  <<"spec">>, <<"spec", "sourceNamespace">>, <<"metadata", "name">>,
                  <<"metadata", "creationTimestamp">>, <<"metadata", "uid">>}}
  \cup {DropKey(<<"request", "resource", k>>) : k \in {"group", "version", "resource"}}
  \cup {DropKey(<<"request", "kind", k>>) : k \in {"group", "version", "kind"}}

ApplyDefect(rj, d) ==
  CASE d.kind = "drop" -> DropPath(rj, d.at)
    [] d.kind = "drop_target" ->
         DropPath(DropPath(rj, <<"request", "object">> \o d.at),
                  <<"request", "oldObject">> \o d.at)
    [] d.kind = "null" ->
         IF Len(d.at) = 2 THEN [rj EXCEPT !.request[d.at[2]] = None]
         ELSE [rj EXCEPT !.request[d.at[2]][d.at[3]] = None]
    [] d.kind = "other_top_kind" -> [rj EXCEPT !.kind = "Status"]
    [] d.kind = "null_body" -> None

\* the userInfo.groups lists of the reviews that carry a defect
DefectGroupLists(p) == {<<>>} \cup {<<g>> : g \in GroupNames(p)}

\* the call is a structurally complete review of route p
CompleteCall(p) ==
  \E u \in Usernames(p), g \in SeqsUpTo(GroupNames(p), MaxGroups),
     subj \in Subjects(p), op \in Operations, cfg \in PrefixConfigs(p) :
       /\ request_json = Payload(u, g, subj, op)
       /\ exclusive_group_prefixes = cfg

\* the call is a review of route p with one structural defect
DefectiveCall(p) ==
  \E u \in Usernames(p), g \in DefectGroupLists(p),
     subj \in Subjects(p), op \in Operations, d \in Defects :
       /\ request_json = ApplyDefect(Payload(u, g, subj, op), d)
       /\ exclusive_group_prefixes = DefaultPrefixes

(***************************************************************************)
(* The state machine.                                                      *)
(***************************************************************************)
NoResponse == NoBody
\* the worker processes are not looked at
NoPool == [worker |-> <<>>, accepted |-> 0, handled |-> 0, peak |-> 0,
           denied_incs |-> 0]
NoArgs == [username |-> "", groupname |-> Str(""), admin_groupnames |-> <<>>]

Init ==
  /\ path \in Paths
  /\ (CompleteCall(path) \/ DefectiveCall(path))
  /\ pc = "ready"
  /\ called = "none"
  /\ validation = "none"
  /\ entered = FALSE
  /\ raised = FALSE
  /\ response = NoResponse
  /\ total = [p \in CountedPaths |-> 0]
  /\ denied = [p \in CountedPaths |-> 0]
  /\ args = NoArgs
  /\ result = FALSE
  /\ log = <<>>
  /\ pool = NoPool

Inc(counter, p, n) ==
  IF p \in CountedPaths THEN [counter EXCEPT ![p] = @ + n] ELSE counter

\* what validate_request_structure did: "raised", "returned_false" or "valid"
Validation(rj) ==
  LET v == validate_request_structure(rj)
  IN IF v.raised THEN "raised" ELSE IF v.value THEN "valid" ELSE "returned_false"

\* the entry handle_request of route p leaves in the log for body rj, `body`
\* being what its evaluator answers when the structure is valid
Answered(p, rj, body) ==
  [path |-> p,
   request |-> rj,
   valid |-> StructureValid(rj),
   response |-> IF StructureValid(rj) THEN body ELSE response_invalid]

\* HandleRequest reading its counter back: once the route has been called, every
\* further call is refused
HandleRequest_ReadsCounter(p, outcome) ==
  LET refused == p \in CountedPaths /\ total[p] >= 1
      body == IF refused THEN response_invalid ELSE Except(outcome)
  IN
  /\ pc = "ready"
  /\ path = p
  /\ total' = Inc(total, p, 1)
  /\ validation' = Validation(request_json)
  /\ IF ~StructureValid(request_json)
     THEN /\ denied' = Inc(denied, p, 1)
          /\ entered' = FALSE
          /\ raised' = FALSE
          /\ response' = response_invalid
     ELSE /\ denied' = Inc(denied, p, outcome.denied_inc)
          /\ entered' = TRUE
          /\ raised' = outcome.raised
          /\ response' = body
  /\ pc' = "done"
  /\ called' = "handle_request"
  /\ log' = Append(log, Answered(p, request_json, body))
  /\ UNCHANGED <<path, request_json, exclusive_group_prefixes, args, result, pool>>

\* HandleRequest with TOTAL_*.inc() after the structural check instead of first
HandleRequest_CountsValidOnly(p, outcome) ==
  /\ pc = "ready"
  /\ path = p
  /\ validation' = Validation(request_json)
  /\ IF ~StructureValid(request_json)
     THEN /\ total' = total
          /\ denied' = Inc(denied, p, 1)
          /\ entered' = FALSE
          /\ raised' = FALSE
          /\ response' = response_invalid
     ELSE /\ total' = Inc(total, p, 1)
          /\ denied' = Inc(denied, p, outcome.denied_inc)
          /\ entered' = TRUE
          /\ raised' = outcome.raised
          /\ response' = Except(outcome)
  /\ pc' = "done"
  /\ called' = "handle_request"
  /\ log' = Append(log, Answered(p, request_json, Except(outcome)))
  /\ UNCHANGED <<path, request_json, exclusive_group_prefixes, args, result, pool>>

\* HandleRequest whose prefix matching appends to the configured list instead
\* of a list of its own
HandleRequest_SharedPrefixList(p, outcome) ==
  /\ pc = "ready"
  /\ path = p
  /\ total' = Inc(total, p, 1)
  /\ validation' = Validation(request_json)
  /\ IF ~StructureValid(request_json)
     THEN /\ denied' = Inc(denied, p, 1)
          /\ entered' = FALSE
          /\ raised' = FALSE
          /\ response' = response_invalid
          /\ UNCHANGED exclusive_group_prefixes
     ELSE /\ denied' = Inc(denied, p, outcome.denied_inc)
          /\ entered' = TRUE
          /\ raised' = outcome.raised
          /\ response' = Except(outcome)
          /\ exclusive_group_prefixes' = Append(exclusive_group_prefixes, "")
  /\ pc' = "done"
  /\ called' = "handle_request"
  /\ log' = Append(log, Answered(p, request_json, Except(outcome)))
  /\ UNCHANGED <<path, request_json, args, result, pool>>

\* handle_request of route p, whose policy code yields `outcome` on this body
HandleRequest(p, outcome) ==
  /\ pc = "ready"
  /\ path = p
  /\ total' = Inc(total, p, 1)
  /\ validation' = Validation(request_json)
  /\ IF ~StructureValid(request_json)
     THEN /\ denied' = Inc(denied, p, 1)
          /\ entered' = FALSE
          /\ raised' = FALSE
          /\ response' = response_invalid
     ELSE /\ denied' = Inc(denied, p, outcome.denied_inc)
          /\ entered' = TRUE
          /\ raised' = outcome.raised
          /\ response' = Except(outcome)
  /\ pc' = "done"
  /\ called' = "handle_request"
  /\ log' = Append(log, Answered(p, request_json, Except(outcome)))
  /\ UNCHANGED <<path, request_json, exclusive_group_prefixes, args, result, pool>>

\* get_response of route p called on its own (no validation, no total counter)
GetResponse(p, outcome) ==
  /\ pc = "ready"
  /\ path = p
  /\ denied' = Inc(denied, p, outcome.denied_inc)
  /\ entered' = TRUE
  /\ raised' = outcome.raised
  /\ response' = Except(outcome)
  /\ pc' = "done"
  /\ called' = "get_response"
  /\ UNCHANGED <<path, request_json, exclusive_group_prefixes, validation, total,
                 args, result, log, pool>>

group_handle_request ==
  HandleRequest(GroupPath, GroupTry(request_json, exclusive_group_prefixes))
group_get_response ==
  GetResponse(GroupPath, GroupTry(request_json, exclusive_group_prefixes))
namespace_handle_request == HandleRequest(NamespacePath, NamespaceTry(request_json))
namespace_get_response == GetResponse(NamespacePath, NamespaceTry(request_json))
identity_handle_request == HandleRequest(IdentityPath, IdentityTry(request_json))
identity_get_response == GetResponse(IdentityPath, IdentityTry(request_json))
user_handle_request == HandleRequest(UserPath, UserTry(request_json))
subscription_handle_request ==
  HandleRequest(SubscriptionPath, SubscriptionTry(request_json))
regular_user_handle_request ==
  HandleRequest(RegularUserPath, RegularUserTry(request_json))
regular_user_get_response ==
  GetResponse(RegularUserPath, RegularUserTry(request_json))

Next ==
  \/ group_handle_request
  \/ group_get_response
  \/ namespace_handle_request
  \/ namespace_get_response
  \/ identity_handle_request
  \/ identity_get_response
  \/ user_handle_request
  \/ subscription_handle_request
  \/ regular_user_handle_request
  \/ regular_user_get_response

Spec == Init /\ [][Next]_vars

(***************************************************************************)
(* is_request_allowed called on its own, as the unit tests call it.        *)
(***************************************************************************)
PredicateUsernames ==
  {"system:unauthenticated", "kube:admin", "system:admin",
   "system:serviceaccount:ci:builder", "nmalik@redhat.com", "bob"}
PredicateGroupNames == {"osd-sre-admins", "something-else", "other-thing"}
\* the second argument: one name, or a list of names
PredicateGroupArgs ==
  {Str(g) : g \in PredicateGroupNames}
  \cup {List(s) : s \in SeqsUpTo(PredicateGroupNames, MaxGroups)}
PredicateAdminGroupLists == {<<>>, <<"osd-sre-admins">>, admin_groups}

PredicateInit ==
  /\ path = RegularUserPath
  /\ request_json = EmptyDict
  /\ exclusive_group_prefixes = DefaultPrefixes
  /\ pc = "ready"
  /\ called = "none"
  /\ validation = "none"
  /\ entered = FALSE
  /\ raised = FALSE
  /\ response = NoResponse
  /\ total = [p \in CountedPaths |-> 0]
  /\ denied = [p \in CountedPaths |-> 0]
  /\ args \in [username : PredicateUsernames,
               groupname : PredicateGroupArgs,
               admin_groupnames : PredicateAdminGroupLists]
  /\ result = FALSE
  /\ log = <<>>
  /\ pool = NoPool

is_request_allowed_call ==
  /\ pc = "ready"
  /\ result' = is_request_allowed(args.username, args.groupname,
                                  args.admin_groupnames)
  /\ pc' = "done"
  /\ called' = "is_request_allowed"
  /\ UNCHANGED <<path, request_json, exclusive_group_prefixes, validation, entered,
                 raised, response, total, denied, args, log, pool>>

PredicateNext == is_request_allowed_call

PredicateSpec == PredicateInit /\ [][PredicateNext]_vars

(***************************************************************************)
(* One worker process serving calls one after the other: the counters and  *)
(* the configuration live as long as the process, a call as long as its    *)
(* handle_request.                                                         *)
(***************************************************************************)
\* the most calls one run of the service receives
MaxCalls == 3

\* per route, a requester with no privilege and the group that gives it one
\* (for subscriptions: the group the policy restricts)
ServiceUsername(p) == IF p = RegularUserPath THEN "bob" ELSE "alice"
ServiceGroup(p) ==
  CASE p = GroupPath -> "osd-sre-cluster-admins"
    [] p = NamespacePath -> "osd-sre-admins"
    [] p = IdentityPath -> "osd-sre-admins"
    [] p = UserPath -> "osd-sre-cluster-admins"
    [] p = SubscriptionPath -> "dedicated-admins"
    [] p = RegularUserPath -> "osd-sre-admins"
\* per route, a target the policy guards
ServiceSubject(p) ==
  CASE p = GroupPath ->
         Subject("dedicated-admins", "", "github", "openshift-marketplace")
    [] p = NamespacePath ->
         Subject("my-object", "kube-system", "github", "openshift-marketplace")
    [] p = IdentityPath ->
         Subject("OpenShift_SRE:alice", "", "OpenShift_SRE", "openshift-marketplace")
    [] p = UserPath ->
         Subject("alice@redhat.com", "", "github", "openshift-marketplace")
    [] p = SubscriptionPath ->
         Subject("my-subscription", "my-project", "github", "kube-foo")
    [] p = RegularUserPath ->
         Subject("osd-sre-admins", "my-project", "github", "openshift-marketplace")

\* the reviews the service receives on route p: from the requester without and
\* with the group; at two routes also one with a structural defect and one
\* without uid
ServiceRequests(p) ==
  LET plain == Payload(ServiceUsername(p), <<>>, ServiceSubject(p), "update")
      grouped == Payload(ServiceUsername(p), <<ServiceGroup(p)>>,
                         ServiceSubject(p), "update")
  IN {plain, grouped}
     \cup IF p \in {GroupPath, NamespacePath}
          THEN {ApplyDefect(plain, DropTargetKey(<<"users">>)),
                ApplyDefect(plain, DropKey(<<"request", "uid">>))}
          ELSE {}

ServicePrefixConfigs == {DefaultPrefixes, <<"dedicated-">>}

\* the worker has started and the first call is in
ServiceInit ==
  /\ path \in Paths
  /\ request_json \in ServiceRequests(path)
  /\ exclusive_group_prefixes \in ServicePrefixConfigs
  /\ pc = "ready"
  /\ called = "none"
  /\ validation = "none"
  /\ entered = FALSE
  /\ raised = FALSE
  /\ response = NoResponse
  /\ total = [p \in CountedPaths |-> 0]
  /\ denied = [p \in CountedPaths |-> 0]
  /\ args = NoArgs
  /\ result = FALSE
  /\ log = <<>>
  /\ pool = NoPool

\* the previous call has been answered and the next one is routed to its handler
receive_request ==
  /\ pc = "done"
  /\ Len(log) < MaxCalls
  /\ \E p \in Paths :
       /\ path' = p
       /\ request_json' \in ServiceRequests(p)
  /\ pc' = "ready"
  /\ called' = "none"
  /\ validation' = "none"
  /\ entered' = FALSE
  /\ raised' = FALSE
  /\ response' = NoResponse
  /\ UNCHANGED <<exclusive_group_prefixes, total, denied, args, result, log, pool>>

ServiceNext ==
  \/ receive_request
  \/ group_handle_request
  \/ namespace_handle_request
  \/ identity_handle_request
  \/ user_handle_request
  \/ subscription_handle_request
  \/ regular_user_handle_request

ServiceSpec == ServiceInit /\ [][ServiceNext]_vars

(***************************************************************************)
(* The deployment: gunicorn forks `workers` processes. No worker class and *)
(* no thread count are configured, so a process serves one call at a time; *)
(* each process imports the webhook package and so has Counter objects of  *)
(* its own. The calls are sent to /identity-validation.                    *)
(***************************************************************************)
workers == 5
Workers == 1..workers
\* the most calls sent to the service
MaxInFlight == 3

\* the reviews sent: one denied, one allowed, one structurally invalid
ConcurrentRequests ==
  ServiceRequests(IdentityPath)
  \cup {ApplyDefect(Payload("alice", <<>>, ServiceSubject(IdentityPath), "update"),
                    DropTargetKey(<<"users">>))}

IdleWorker == [busy |-> FALSE, request |-> EmptyDict, total |-> 0, denied |-> 0]
Busy(pl) == {w \in Workers : pl.worker[w].busy}

\* the master has forked its workers; no call has arrived
ConcurrentInit ==
  /\ path = IdentityPath
  /\ request_json = EmptyDict
  /\ exclusive_group_prefixes = DefaultPrefixes
  /\ pc = "ready"
  /\ called = "none"
  /\ validation = "none"
  /\ entered = FALSE
  /\ raised = FALSE
  /\ response = NoResponse
  /\ total = [p \in CountedPaths |-> 0]
  /\ denied = [p \in CountedPaths |-> 0]
  /\ args = NoArgs
  /\ result = FALSE
  /\ log = <<>>
  /\ pool = [worker |-> [w \in Workers |-> IdleWorker],
             accepted |-> 0, handled |-> 0, peak |-> 0, denied_incs |-> 0]

\* a worker that is not serving a call accepts the next connection
worker_accept ==
  /\ pool.accepted < MaxInFlight
  /\ \E w \in Workers \ Busy(pool), rj \in ConcurrentRequests :
       LET busy == Cardinality(Busy(pool)) + 1
       IN pool' = [pool EXCEPT !.worker[w].busy = TRUE,
                               !.worker[w].request = rj,
                               !.accepted = @ + 1,
                               !.peak = IF busy > @ THEN busy ELSE @]
  /\ UNCHANGED <<path, request_json, exclusive_group_prefixes, pc, called,
                 validation, entered, raised, response, total, denied, args,
                 result, log>>

\* identity_validation.handle_request run by a worker on the call it accepted,
\* incrementing the TOTAL_IDENTITY and DENIED_IDENTITY of that process
worker_handle_request ==
  /\ \E w \in Busy(pool) :
       LET rj == pool.worker[w].request
           inc == IF ~StructureValid(rj) THEN 1 ELSE IdentityTry(rj).denied_inc
       IN pool' = [pool EXCEPT !.worker[w].busy = FALSE,
                               !.worker[w].request = EmptyDict,
                               !.worker[w].total = @ + 1,
                               !.worker[w].denied = @ + inc,
                               !.handled = @ + 1,
                               !.denied_incs = @ + inc]
  /\ UNCHANGED <<path, request_json, exclusive_group_prefixes, pc, called,
                 validation, entered, raised, response, total, denied, args,
                 result, log>>

ConcurrentNext == worker_accept \/ worker_handle_request

ConcurrentSpec == ConcurrentInit /\ [][ConcurrentNext]_vars

(***************************************************************************)
(* Properties.                                                             *)
(***************************************************************************)
Done == pc = "done"
AtEndpoint == Done /\ called = "handle_request"
HasRequest == CanKeys(request_json, "request")
Req == request_json.request
AnsweredInvalid ==
  /\ response.allowed = FALSE
  /\ response.message = "Invalid request"
  /\ response.uid = ""
Allowed == response.allowed = TRUE /\ response.message = "Access granted"
\* userInfo is a dict carrying a username
HasUsername == HasRequest /\ CanKeys(Req, "userInfo") /\ Has(Req.userInfo, "username")
\* userInfo is a dict carrying a list of groups
HasGroupList ==
  /\ HasRequest /\ CanKeys(Req, "userInfo")
  /\ Has(Req.userInfo, "groups") /\ IsList(Req.userInfo.groups)
RequesterGroups == Range(Items(Req.userInfo.groups))
FromClusterAdmin == HasUsername /\ Req.userInfo.username \in {"kube:admin", "system:admin"}

\* one of the keys C1 lists is missing, or groups is no list
C1_Malformed ==
  \/ ~Has(request_json, "request")
  \/ ~IsDict(Req)
  \/ \E k \in {"kind", "resource", "operation", "object", "userInfo"} : ~Has(Req, k)
  \/ ~Has(Req.userInfo, "username")
  \/ ~Has(Req.userInfo, "groups")
  \/ ~IsList(Req.userInfo.groups)

\* C1: at every endpoint a payload missing request, request.kind, resource,
\* operation, object, userInfo, userInfo.username or userInfo.groups, or whose
\* groups is not a list, is answered allowed=false "Invalid request" and the
\* policy evaluator is not entered, whether the validator returned False or raised.
C1_MalformedIsInvalid ==
  (AtEndpoint /\ C1_Malformed) =>
     /\ AnsweredInvalid
     /\ ~entered
     /\ validation \in {"returned_false", "raised"}

\* a payload whose only flaw is a missing username: the validator returns False
C1_Witness ==
  /\ AtEndpoint /\ C1_Malformed
  /\ validation = "returned_false"
  /\ path = NamespacePath
  /\ HasGroupList /\ ~Has(Req.userInfo, "username")
  /\ AnsweredInvalid

\* a field the route's evaluator reads is absent from a validated payload
C2_FieldMissing ==
  \/ ~Has(Req, "uid")
  \/ path = NamespacePath /\ ~Has(Req, "namespace")
  \/ path = IdentityPath /\ ~Has(Req.object, "providerName")
  \/ path = SubscriptionPath /\ ~CanKeys(Req.object, "spec")
  \/ path = SubscriptionPath /\ ~Has(Req.object.spec, "sourceNamespace")

\* C2: when structural validation passed and reading a request field during
\* policy evaluation raises (uid, namespace, providerName, spec.sourceNamespace
\* absent), the verdict is allowed=false "Invalid request"; no error path,
\* at an endpoint or in get_response called directly, yields allowed=true.
C2_NeverFailsOpen ==
  /\ (AtEndpoint /\ validation = "valid" /\ C2_FieldMissing) =>
        (raised /\ AnsweredInvalid)
  /\ (Done /\ raised) => AnsweredInvalid

\* a validated Subscription review without spec.sourceNamespace
C2_Witness ==
  /\ AtEndpoint /\ validation = "valid" /\ entered /\ raised
  /\ path = SubscriptionPath
  /\ CanKeys(Req.object, "spec") /\ ~Has(Req.object.spec, "sourceNamespace")
  /\ AnsweredInvalid

\* the evaluator ran to a verdict on a request from kube:admin / system:admin
C3_AdminEvaluated == Done /\ entered /\ ~raised /\ FromClusterAdmin

C4_WellFormedDelete ==
  /\ HasRequest
  /\ \A k \in {"uid", "kind", "resource", "operation", "namespace", "object",
               "oldObject", "userInfo"} : Has(Req, k)
  /\ Req.operation = "delete"
  /\ IsNone(Req.object)
  /\ IsDict(Req.oldObject)
  /\ \A k \in {"metadata", "users", "kind", "providerName", "spec"} :
        Has(Req.oldObject, k)
  /\ \A k \in {"name", "creationTimestamp", "uid"} : Has(Req.oldObject.metadata, k)
  /\ IsDict(Req.userInfo)
  /\ \A k \in {"username", "groups", "extra"} : Has(Req.userInfo, k)
  /\ IsList(Req.userInfo.groups)
  /\ \A k \in {"group", "version", "resource"} : Has(Req.resource, k)
  /\ \A k \in {"group", "version", "kind"} : Has(Req.kind, k)

\* C4: a DELETE payload that is otherwise well-formed (object = null, oldObject
\* carrying metadata.name) is judged valid and reaches the policy evaluator
\* instead of being answered "Invalid request".
C4_DeleteReachesEvaluator ==
  (AtEndpoint /\ C4_WellFormedDelete) =>
     (validation = "valid" /\ entered /\ ~AnsweredInvalid)

\* C5: a payload whose top-level kind is absent or is not "AdmissionReview" is
\* judged invalid and answered "Invalid request" at every endpoint.
C5_TopLevelKindRequired ==
  (AtEndpoint /\ (~Has(request_json, "kind") \/ request_json.kind # "AdmissionReview"))
     => (validation # "valid" /\ AnsweredInvalid)

\* the group evaluator ran on a request whose target name, uid and operation
\* are there and whose userInfo, when there, is a dict with a list of groups
GroupEvaluated ==
  /\ Done /\ path = GroupPath /\ entered
  /\ HasRequest
  /\ ~TargetNameRaises(Req)
  /\ Has(Req, "uid") /\ Has(Req, "operation")
  /\ Has(Req, "userInfo") => IsDict(Req.userInfo)
  /\ (Has(Req, "userInfo") /\ Has(Req.userInfo, "groups")) => IsList(Req.userInfo.groups)
GroupName == TargetName(Req)
GroupRequesterGroups ==
  IF Has(Req, "userInfo") /\ Has(Req.userInfo, "groups")
  THEN Range(Items(Req.userInfo.groups)) ELSE {}
GroupRequesterInAdminGroup ==
  GroupRequesterGroups \cap {"osd-sre-admins", "osd-sre-cluster-admins"} # {}
GroupRequesterIsClusterAdmin ==
  /\ Has(Req, "userInfo") /\ Has(Req.userInfo, "username")
  /\ Req.userInfo.username \in {"kube:admin", "system:admin"}
GroupDenied ==
  /\ response.allowed = FALSE
  /\ response.uid = Req.uid
  /\ response.message =
       "User not authorized to " \o Req.operation \o " group " \o GroupName

\* the protected-group pattern as the claims read it: prefix osd-sre, or the whole
\* name (up to a final newline, as "$" allows) is one of the three names
ProtectedGroupName(name) ==
  \/ StartsWith(name, "osd-sre")
  \/ \E lit \in {"dedicated-admins", "cluster-admins", "layered-cs-sre-admins"} :
        name \in {lit, lit \o "\n"}

\* C6: for every target group name that does not match the protected-group
\* pattern the group evaluator allows, for every username, every requester
\* groups, update and delete, and every exclusive-prefix list.
C6_UnprotectedGroupAllowed ==
  (GroupEvaluated /\ ~ProtectedGroupName(GroupName)) => Allowed

\* a delete of an unprotected group whose name starts with a configured
\* exclusive prefix, by a requester in no admin group
C6_Witness ==
  /\ GroupEvaluated /\ ~ProtectedGroupName(GroupName)
  /\ called = "get_response"
  /\ IsNone(Req.object) /\ Req.operation = "delete"
  /\ GroupName = "group-we-dont-care"
  /\ exclusive_group_prefixes = <<"group-we">>
  /\ Req.userInfo.username = "alice"
  /\ GroupRequesterGroups = {"test-group"}
  /\ Allowed

NoExclusivePrefixConfigured ==
  \A i \in DOMAIN exclusive_group_prefixes : exclusive_group_prefixes[i] = ""

C7_Verdict ==
  /\ response.allowed = GroupRequesterInAdminGroup
  /\ response.allowed = FALSE => GroupDenied

\* C7 as stated: for a protected group name and no exclusive prefix configured,
\* allowed=true iff the requester's groups intersect the admin groups, whoever
\* the requester is.
C7_Original ==
  (GroupEvaluated /\ ProtectedGroupName(GroupName) /\ NoExclusivePrefixConfigured)
     => C7_Verdict

\* C7 as amended: for a protected group name, no exclusive prefix configured and
\* a requester whose username is neither kube:admin nor system:admin,
\* allowed=true iff the requester's groups intersect the admin groups; a denial
\* carries "User not authorized to {operation} group {groupName}", the name
\* taken from oldObject on delete.
C7_ProtectedGroupIffAdminGroup ==
  (/\ GroupEvaluated /\ ProtectedGroupName(GroupName)
   /\ NoExclusivePrefixConfigured
   /\ ~GroupRequesterIsClusterAdmin)
     => C7_Verdict

\* a delete of a protected group denied with the name taken from oldObject
C7_Witness ==
  /\ GroupEvaluated /\ NoExclusivePrefixConfigured
  /\ called = "get_response"
  /\ IsNone(Req.object) /\ Req.oldObject.metadata.name = "dedicated-admins"
  /\ Req.userInfo.username = "alice"
  /\ GroupRequesterGroups = {"test-group", "layered-cs-sre-admins"}
  /\ response.allowed = FALSE
  /\ response.message = "User not authorized to delete group dedicated-admins"

\* p is the first configured exclusive prefix that the target name starts with
ExclusivePrefixApplies(p) ==
  \E i \in DOMAIN exclusive_group_prefixes :
     /\ exclusive_group_prefixes[i] = p
     /\ p # ""
     /\ StartsWith(GroupName, p)
     /\ \A j \in 1..(i - 1) :
           \/ exclusive_group_prefixes[j] = ""
           \/ ~StartsWith(GroupName, exclusive_group_prefixes[j])

C8_Verdict(p) ==
  /\ response.allowed =
       (/\ GroupRequesterInAdminGroup
        /\ \E g \in GroupRequesterGroups : StartsWith(g, p))
  /\ response.allowed = FALSE => GroupDenied

\* C8 as stated: for a protected group under an exclusive prefix, a requester in
\* an admin group is allowed only if one of its groups starts with that prefix,
\* and a requester in no admin group is denied, whoever the requester is.
C8_Original ==
  \A p \in Range(exclusive_group_prefixes) :
     (GroupEvaluated /\ ProtectedGroupName(GroupName) /\ ExclusivePrefixApplies(p))
        => C8_Verdict(p)

\* C8 as amended: for a protected group whose name starts with a configured
\* exclusive prefix (the first that matches applies) and a requester whose
\* username is neither kube:admin nor system:admin, the request is allowed iff
\* the requester is in an admin group and one of its groups starts with that
\* prefix; otherwise it is denied with "User not authorized to {operation} group
\* {groupName}", also when a non-admin requester shares the prefix.
C8_ExclusivePrefix ==
  \A p \in Range(exclusive_group_prefixes) :
     (/\ GroupEvaluated /\ ProtectedGroupName(GroupName)
      /\ ExclusivePrefixApplies(p)
      /\ ~GroupRequesterIsClusterAdmin)
        => C8_Verdict(p)

\* two prefixes match the target; the requester is an admin sharing only the
\* second one, and is denied because the first one applies
C8_Witness ==
  /\ GroupEvaluated
  /\ exclusive_group_prefixes = <<"layered-cs", "layered-">>
  /\ GroupName = "layered-cs-sre-admins"
  /\ ExclusivePrefixApplies("layered-cs")
  /\ Req.userInfo.username = "alice"
  /\ GroupRequesterGroups = {"osd-sre-cluster-admins", "layered-sre-cluster-admins"}
  /\ GroupDenied

\* C9: get_response of the group evaluator answers a request without userInfo,
\* or without userInfo.username, with allowed=false "Invalid request", for
\* every target group name.
C9_MissingUsernameIsInvalid ==
  (/\ Done /\ path = GroupPath /\ called = "get_response"
   /\ HasRequest
   /\ (~Has(Req, "userInfo") \/ ~Has(Req.userInfo, "username")))
     => AnsweredInvalid

\* the service-account pattern as C10 gives it, under re.match
PrivilegedServiceAccountGroup(g) ==
  \E ns \in {"kube", "openshift", "default", "redhat"} :
     StartsWith(g, "system:serviceaccounts:" \o ns)

\* C10: a requester with a group matching
\* system:serviceaccounts:(kube|openshift|default|redhat).* is allowed by the
\* namespace evaluator for every target namespace, privileged ones included,
\* whatever the username and the other groups.
C10_ServiceAccountBypass ==
  (/\ Done /\ path = NamespacePath /\ entered
   /\ HasGroupList
   /\ Has(Req, "uid") /\ Has(Req, "namespace")
   /\ \E g \in RequesterGroups : PrivilegedServiceAccountGroup(g))
     => Allowed

\* a privileged namespace, a requester that no later check would let through
C10_Witness ==
  /\ AtEndpoint /\ path = NamespacePath /\ entered
  /\ HasGroupList
  /\ Req.namespace = "kube-system"
  /\ Req.userInfo.username = "alice"
  /\ RequesterGroups = {"dedicated-admins", "system:serviceaccounts:openshift-infra"}
  /\ Allowed

\* the namespace evaluator ran to a verdict on a request that carries userInfo
NamespaceEvaluated ==
  /\ Done /\ path = NamespacePath /\ entered /\ ~raised
  /\ HasRequest /\ Has(Req, "userInfo")
NamespaceRequesterGroups ==
  IF Has(Req.userInfo, "groups") THEN Range(Items(Req.userInfo.groups)) ELSE {}
NamespaceRequesterInSreGroup ==
  \/ "osd-sre-admins" \in NamespaceRequesterGroups
  \/ "osd-sre-cluster-admins" \in NamespaceRequesterGroups
NamespaceRequesterIsServiceAccount ==
  \E g \in NamespaceRequesterGroups : PrivilegedServiceAccountGroup(g)
NamespaceDenied ==
  /\ response.allowed = FALSE
  /\ response.uid = Req.uid
  /\ response.message =
       "You cannot update the privileged namespace " \o Req.namespace \o "."

\* C11: the namespace evaluator allows a requester in layered-sre-cluster-admins
\* on every namespace that starts with "redhat"; on a privileged namespace that
\* does not (kube*, openshift*, default) the same group exempts nobody: a
\* requester with no other ground for access is denied.
C11_LayeredAdminOnRedhatOnly ==
  NamespaceEvaluated =>
    /\ (/\ StartsWith(Req.namespace, "redhat")
        /\ "layered-sre-cluster-admins" \in NamespaceRequesterGroups) => Allowed
    /\ (/\ \/ StartsWith(Req.namespace, "kube")
           \/ StartsWith(Req.namespace, "openshift")
           \/ Req.namespace = "default"
        /\ "layered-sre-cluster-admins" \in NamespaceRequesterGroups
        /\ ~NamespaceRequesterInSreGroup
        /\ ~NamespaceRequesterIsServiceAccount
        /\ ~FromClusterAdmin) => NamespaceDenied

\* namespace "redhat-example", groups ["layered-sre-cluster-admins"]
C11_Witness ==
  /\ NamespaceEvaluated /\ AtEndpoint
  /\ Req.namespace = "redhat-example"
  /\ Req.userInfo.username = "alice"
  /\ NamespaceRequesterGroups = {"layered-sre-cluster-admins"}
  /\ Allowed

\* the privileged-namespace patterns as C12 lists them
C12_ListedPrivilegedNamespace(ns) ==
  \/ StartsWith(ns, "kube-")
  \/ StartsWith(ns, "openshift")
  \/ StartsWith(ns, "redhat-")
  \/ ns \in {"ops-health-monitoring", "management-infra", "default", "logging",
             "sre-app-check"}

\* C12: on every namespace matching a listed privileged-namespace pattern, a
\* requester not let through by the service-account or layered-admin steps is
\* allowed only if in osd-sre-admins / osd-sre-cluster-admins or named
\* kube:admin / system:admin, and is otherwise denied with
\* "You cannot update the privileged namespace {ns}.".
C12_ListedNamespacesAreGuarded ==
  (/\ NamespaceEvaluated
   /\ C12_ListedPrivilegedNamespace(Req.namespace)
   /\ ~NamespaceRequesterIsServiceAccount
   /\ ~(/\ StartsWith(Req.namespace, "redhat")
        /\ "layered-sre-cluster-admins" \in NamespaceRequesterGroups))
     => IF NamespaceRequesterInSreGroup \/ FromClusterAdmin
        THEN Allowed
        ELSE NamespaceDenied

\* C13: on every namespace that matches no privileged-namespace pattern of the
\* evaluator, the verdict is allowed=true for every username and every set of
\* groups, dedicated-admins included.
C13_UnprivilegedNamespaceAllowed ==
  (/\ NamespaceEvaluated
   /\ ~StartsWith(Req.namespace, "kube")
   /\ ~StartsWith(Req.namespace, "openshift")
   /\ ~StartsWith(Req.namespace, "redhat")
   /\ Req.namespace \notin {"default", "default\n"})
     => Allowed

\* "default-user", requested by a member of dedicated-admins only
C13_Witness ==
  /\ NamespaceEvaluated /\ AtEndpoint
  /\ Req.namespace = "default-user"
  /\ Req.userInfo.username = "alice"
  /\ NamespaceRequesterGroups = {"dedicated-admins"}
  /\ Allowed

\* the resource the request is about: object, or oldObject when object is null
Target == IF IsNone(Req.object) THEN Req.oldObject ELSE Req.object
FromUnrestrictedUser ==
  Req.userInfo.username \in
    {"kube:admin", "system:admin",
     "system:serviceaccount:openshift-authentication:oauth-openshift"}
RequesterInAdminGroup ==
  RequesterGroups \cap {"osd-sre-admins", "osd-sre-cluster-admins"} # {}
\* the deny of the identity and user evaluators; what is " identity " or " user "
DeniedTarget(what) ==
  /\ response.allowed = FALSE
  /\ response.uid = Req.uid
  /\ response.message =
       "User not authorized to " \o Req.operation \o what \o Target.metadata.name

\* the identity evaluator ran to a verdict
IdentityEvaluated ==
  Done /\ path = IdentityPath /\ entered /\ ~raised /\ HasRequest

\* C14: the identity evaluator allows kube:admin, system:admin and the OAuth
\* service account unconditionally; otherwise, when the target's providerName is
\* OpenShift_SRE, it allows exactly the requesters whose groups intersect the
\* admin groups and denies the others with
\* "User not authorized to {operation} identity {name}"; when the providerName
\* differs it allows every requester.
C14_IdentityPolicy ==
  IdentityEvaluated =>
    IF FromUnrestrictedUser THEN Allowed
    ELSE IF Target.providerName = "OpenShift_SRE"
    THEN IF RequesterInAdminGroup THEN Allowed ELSE DeniedTarget(" identity ")
    ELSE Allowed

\* a member of dedicated-admins deleting an identity of the SRE provider
C14_Witness ==
  /\ IdentityEvaluated
  /\ Req.operation = "delete" /\ IsNone(Req.object)
  /\ Req.userInfo.username = "alice"
  /\ RequesterGroups = {"dedicated-admins"}
  /\ Target.providerName = "OpenShift_SRE"
  /\ DeniedTarget(" identity ")

\* the user evaluator ran to a verdict
UserEvaluated ==
  Done /\ path = UserPath /\ entered /\ ~raised /\ HasRequest

\* the name ends with "@redhat.com" (11 characters)
C15_ProtectedUserName(name) ==
  Len(name) >= 11 /\ SubSeq(name, Len(name) - 10, Len(name)) = "@redhat.com"

SubscriptionEvaluated ==
  Done /\ path = SubscriptionPath /\ entered /\ ~raised /\ HasRequest
SubscriptionDenied ==
  /\ response.allowed = FALSE
  /\ response.uid = Req.uid
  /\ response.message = "You cannot manage Subscriptions that target "
                          \o Req.object.spec.sourceNamespace \o "."

\* C16: the subscription evaluator denies, with
\* "You cannot manage Subscriptions that target {sourceNamespace}.", exactly
\* when the requester is in dedicated-admins and spec.sourceNamespace is not
\* openshift-marketplace; every other request it evaluates is allowed.
C16_SubscriptionPolicy ==
  SubscriptionEvaluated =>
    IF /\ "dedicated-admins" \in RequesterGroups
       /\ Req.object.spec.sourceNamespace # "openshift-marketplace"
    THEN SubscriptionDenied
    ELSE Allowed

\* a member of dedicated-admins targeting "kube-foo"
C16_Witness ==
  /\ SubscriptionEvaluated
  /\ RequesterGroups = {"dedicated-admins", "test-group"}
  /\ Req.object.spec.sourceNamespace = "kube-foo"
  /\ SubscriptionDenied

\* is_request_allowed has returned
PredicateReturned == pc = "done" /\ called = "is_request_allowed"
\* the second argument is a list holding at least one of the admin groups
PredicateGroupsHoldAdminGroup ==
  /\ IsList(args.groupname)
  /\ Range(Items(args.groupname)) \cap Range(args.admin_groupnames) # {}

\* C17: is_request_allowed returns false for username "system:unauthenticated",
\* for every second argument and every admin-group list, also when the second
\* argument is, or holds, an admin group.
C17_UnauthenticatedIsDenied ==
  (PredicateReturned /\ args.username = "system:unauthenticated") => result = FALSE

\* unauthenticated, with a group list that holds the admin group
C17_Witness ==
  /\ PredicateReturned
  /\ args.username = "system:unauthenticated"
  /\ args.groupname = List(<<"something-else", "osd-sre-admins">>)
  /\ args.admin_groupnames = <<"osd-sre-admins">>
  /\ result = FALSE

\* C18: for a username that is not "system:unauthenticated" and starts with
\* neither "kube:" nor "system:", is_request_allowed(username, groups,
\* adminGroups) is true if and only if an element of the list groups is in
\* adminGroups.
C18_AllowedIffInAdminGroup ==
  (/\ PredicateReturned
   /\ args.username # "system:unauthenticated"
   /\ ~StartsWith(args.username, "kube:")
   /\ ~StartsWith(args.username, "system:")
   /\ IsList(args.groupname))
     => (result = PredicateGroupsHoldAdminGroup)

\* isAllowed(userInfo.username, userInfo.groups, adminGroups) as C19 reads it:
\* decided on the requester's groups
C19_RequesterIsAllowed ==
  IF Req.userInfo.username = "system:unauthenticated" THEN FALSE
  ELSE IF RequesterInAdminGroup THEN TRUE
  ELSE \/ StartsWith(Req.userInfo.username, "kube:")
       \/ StartsWith(Req.userInfo.username, "system:")

\* C19: for a request carrying uid, operation, userInfo.username,
\* userInfo.groups and an object with a kind, get_response of the regular-user
\* evaluator allows exactly when isAllowed(username, groups, adminGroups) holds
\* and otherwise denies with
\* "Regular user '{username}' cannot {operation} kind '{kind}'."; the target
\* object's name plays no part.
C19_WrapperDecidesOnRequester ==
  (/\ Done /\ path = RegularUserPath /\ entered
   /\ HasRequest /\ Has(Req, "uid") /\ Has(Req, "operation")
   /\ HasUsername /\ HasGroupList
   /\ CanKeys(Req, "object") /\ Has(Req.object, "kind"))
     => IF C19_RequesterIsAllowed
        THEN response.allowed = TRUE /\ response.uid = Req.uid
        ELSE /\ response.allowed = FALSE
             /\ response.uid = Req.uid
             /\ response.message =
                  "Regular user '" \o Req.userInfo.username \o "' cannot "
                    \o Req.operation \o " kind '" \o Req.object.kind \o "'."

\* the verdict was built by response_invalid: validation failed, the evaluator
\* caught an exception, or the namespace evaluator found no userInfo
C20_BuiltByInvalid ==
  \/ ~entered
  \/ raised
  \/ path = NamespacePath /\ HasRequest /\ ~Has(Req, "userInfo")

\* C20: every verdict has kind "AdmissionReview"; a verdict built by
\* response_invalid has allowed=false, uid "" and message "Invalid request",
\* whatever uid the request carried; a verdict built by response_allow
\* ("Access granted") has allowed=true and one built by response_deny has
\* allowed=false, both with the uid of the request.
C20_ResponseBuilder ==
  Done =>
    /\ response.kind = "AdmissionReview"
    /\ IF C20_BuiltByInvalid
       THEN AnsweredInvalid
       ELSE /\ response.uid = Req.uid
            /\ response.allowed \in BOOLEAN
            /\ (response.message = "Access granted") <=> (response.allowed = TRUE)
            /\ response.message # "Invalid request"

\* a request that carries a uid, answered by response_invalid
C20_Witness ==
  /\ AtEndpoint /\ validation = "returned_false"
  /\ HasRequest /\ Has(Req, "uid") /\ Req.uid = "testuser"
  /\ response.kind = "AdmissionReview"
  /\ AnsweredInvalid

\* the message the route's evaluator passes to response_deny for this request
C21_EvaluatorDenyMessage ==
  CASE path = GroupPath ->
         "User not authorized to " \o Req.operation \o " group " \o Target.metadata.name
    [] path = NamespacePath ->
         "You cannot update the privileged namespace " \o Req.namespace \o "."
    [] path = IdentityPath ->
         "User not authorized to " \o Req.operation \o " identity "
           \o Target.metadata.name
    [] path = UserPath ->
         "User not authorized to " \o Req.operation \o " user " \o Target.metadata.name
    [] path = SubscriptionPath ->
         "You cannot manage Subscriptions that target "
           \o Req.object.spec.sourceNamespace \o "."
    [] path = RegularUserPath ->
         "Regular user '" \o Req.userInfo.username \o "' cannot " \o Req.operation
           \o " kind '" \o Req.object.kind \o "'."

\* C21: every allow verdict carries the message "Access granted", whatever
\* message the evaluator passed to response_allow, and every deny verdict
\* carries exactly the message the evaluator passed to response_deny; in any
\* response allowed=true implies message "Access granted".
C21_VerdictMessages ==
  Done =>
    /\ (response.allowed = TRUE) => (response.message = "Access granted")
    /\ (response.allowed = FALSE /\ ~C20_BuiltByInvalid) =>
          (response.message = C21_EvaluatorDenyMessage)

\* an SRE admin updating a protected group: the evaluator passes
\* "update group dedicated-admins" to response_allow
C21_Witness ==
  /\ AtEndpoint /\ path = GroupPath /\ entered /\ ~raised
  /\ Req.userInfo.username = "alice"
  /\ Target.metadata.name = "dedicated-admins"
  /\ "osd-sre-cluster-admins" \in RequesterGroups
  /\ response.allowed = TRUE
  /\ response.message = "Access granted"

\* the keys C29 lists, beyond those C1 lists
C29_ExtraKeysPresent ==
  /\ HasRequest
  /\ CanKeys(Req, "userInfo") /\ Has(Req.userInfo, "extra")
  /\ CanKeys(Req, "object")
  /\ CanKeys(Req.object, "metadata") /\ Has(Req.object, "users")
  /\ \A k \in {"name", "creationTimestamp", "uid"} : Has(Req.object.metadata, k)
  /\ CanKeys(Req, "resource")
  /\ \A k \in {"group", "version", "resource"} : Has(Req.resource, k)
  /\ CanKeys(Req, "kind")
  /\ \A k \in {"group", "version", "kind"} : Has(Req.kind, k)

\* C29: the structural validator accepts a payload only if userInfo has "extra",
\* object has "metadata" and "users", object.metadata has "name",
\* "creationTimestamp" and "uid", resource has "group", "version", "resource"
\* and kind has "group", "version", "kind"; so at every endpoint a request whose
\* object has no "users" key is answered "Invalid request" and the evaluator is
\* not entered.
C29_ValidatorRequiresExtraKeys ==
  AtEndpoint =>
    /\ (validation = "valid") => C29_ExtraKeysPresent
    /\ (HasRequest /\ CanKeys(Req, "object") /\ ~Has(Req.object, "users")) =>
          (AnsweredInvalid /\ ~entered)

\* a Subscription review, complete but for object.users
C29_Witness ==
  /\ AtEndpoint /\ path = SubscriptionPath
  /\ HasRequest /\ CanKeys(Req, "object") /\ ~Has(Req.object, "users")
  /\ CanKeys(Req.object, "spec") /\ Has(Req.object.spec, "sourceNamespace")
  /\ validation = "returned_false"
  /\ AnsweredInvalid /\ ~entered

\* the name of the target (for identity, also its providerName) cannot be read
C30_TargetUnreadable ==
  \/ ~Has(Req, "object")
  \/ LET src == IF IsNone(Req.object) THEN "oldObject" ELSE "object"
     IN \/ ~CanKeys(Req, src)
        \/ ~CanKeys(Req[src], "metadata")
        \/ ~Has(Req[src].metadata, "name")
        \/ path = IdentityPath /\ ~Has(Req[src], "providerName")
\* the username the route's evaluator allows unconditionally
C30_BypassUser ==
  /\ HasUsername
  /\ \/ Req.userInfo.username \in {"kube:admin", "system:admin"}
     \/ /\ path \in {IdentityPath, UserPath}
        /\ Req.userInfo.username =
             "system:serviceaccount:openshift-authentication:oauth-openshift"

\* C30: in the group, identity and user evaluators the target name (for
\* identity, also providerName) is read before the unconditional allow on the
\* username: a request from kube:admin / system:admin (or the OAuth service
\* account) whose object / oldObject lacks metadata.name (or providerName) gets
\* the "Invalid request" denial, not an allow.
C30_TargetReadBeforeBypass ==
  (/\ Done /\ path \in {GroupPath, IdentityPath, UserPath}
   /\ HasRequest /\ C30_BypassUser /\ C30_TargetUnreadable)
     => AnsweredInvalid

\* kube:admin acting on an identity without providerName: validation passes and
\* the evaluator faults before it looks at the username
C30_Witness ==
  /\ AtEndpoint /\ path = IdentityPath
  /\ validation = "valid" /\ entered /\ raised
  /\ Req.userInfo.username = "kube:admin"
  /\ Has(Req, "uid")
  /\ ~Has(Req.object, "providerName")
  /\ AnsweredInvalid

\* the endpoints C28 speaks of
C28_Paths == {NamespacePath, IdentityPath, UserPath, SubscriptionPath}
\* the evaluator ran to its end and returned a deny of its own
C28_PolicyDeny == entered /\ ~raised /\ response.allowed = FALSE /\ ~AnsweredInvalid
\* the evaluator faulted after validation: the answer is "Invalid request"
C28_Fault == entered /\ raised
\* a request that passed validation, carries no uid, and that the namespace
\* evaluator sends to its deny branch
C28_NamespaceDenyWithoutUid ==
  /\ path = NamespacePath
  /\ ~Has(Req, "uid") /\ Has(Req, "namespace")
  /\ \/ StartsWith(Req.namespace, "kube")
     \/ StartsWith(Req.namespace, "openshift")
     \/ StartsWith(Req.namespace, "redhat")
     \/ Req.namespace = "default"
  /\ ~NamespaceRequesterIsServiceAccount
  /\ ~(/\ StartsWith(Req.namespace, "redhat")
       /\ "layered-sre-cluster-admins" \in NamespaceRequesterGroups)
  /\ ~NamespaceRequesterInSreGroup
  /\ ~FromClusterAdmin

\* C28 as stated: one increment for a structurally invalid request, one for a
\* policy deny (none at the subscription endpoint), none for a fault after
\* validation.
C28_Original ==
  (AtEndpoint /\ path \in C28_Paths) =>
    denied[path] =
      IF validation # "valid" THEN 1
      ELSE IF path # SubscriptionPath /\ C28_PolicyDeny THEN 1
      ELSE 0

\* C28: the denied counter of the namespace, identity and user endpoints goes up
\* by one for a structurally invalid request and by one for a policy deny; at
\* the subscription endpoint only for a structurally invalid request; a fault
\* after validation adds nothing at the identity, user and subscription
\* endpoints, and at the namespace endpoint adds one exactly when the fault is
\* the deny verdict failing to build (no uid), the counter being incremented
\* before the verdict is built.
C28_DeniedAccounting ==
  (AtEndpoint /\ path \in C28_Paths) =>
    denied[path] =
      IF validation # "valid" THEN 1
      ELSE IF path # SubscriptionPath /\ C28_PolicyDeny THEN 1
      ELSE IF C28_Fault /\ C28_NamespaceDenyWithoutUid THEN 1
      ELSE 0

\* a validated request without uid for namespace "kube-system" from alice, who
\* has no exemption: the answer is "Invalid request" and the denied counter is 1
C28_Witness ==
  /\ AtEndpoint /\ path = NamespacePath
  /\ validation = "valid" /\ C28_Fault /\ AnsweredInvalid
  /\ Req.namespace = "kube-system" /\ Req.userInfo.username = "alice"
  /\ C28_NamespaceDenyWithoutUid
  /\ denied[NamespacePath] = 1 /\ total[NamespacePath] = 1

\* the three verdicts handle_request can return
C25_AllowVerdict ==
  /\ response.allowed = TRUE /\ HasRequest /\ response.uid = Req.uid
C25_PolicyDenyVerdict ==
  /\ response.allowed = FALSE /\ response.message # "Invalid request"
  /\ HasRequest /\ response.uid = Req.uid
C25_OneVerdict ==
  /\ response.kind = "AdmissionReview"
  /\ \/ C25_AllowVerdict /\ ~AnsweredInvalid
     \/ C25_PolicyDenyVerdict /\ ~AnsweredInvalid
     \/ AnsweredInvalid /\ ~C25_AllowVerdict

\* handle_request of the route that was called
C25_HandleRequest ==
  \/ group_handle_request \/ namespace_handle_request
  \/ identity_handle_request \/ user_handle_request
  \/ subscription_handle_request \/ regular_user_handle_request

\* C25: for every endpoint and every payload (well-formed, malformed, or
\* faulting during evaluation) handle_request can run, runs to its end and
\* returns one verdict, which is an allow, a policy deny or the invalid verdict;
\* no exception escapes, no call ends without a verdict, and a call that has
\* been answered is not run again.
C25_AnsweredExactlyOnce ==
  /\ (pc = "ready") => (response = NoResponse /\ ENABLED C25_HandleRequest)
  /\ AtEndpoint => C25_OneVerdict
  /\ Done => ~ENABLED Next

\* a regular-user review that passes validation and faults during evaluation
C25_Witness ==
  /\ AtEndpoint /\ path = RegularUserPath
  /\ validation = "valid" /\ entered /\ raised
  /\ AnsweredInvalid /\ response.kind = "AdmissionReview"

\* C26: handling a request (allowed, denied, invalid or faulting) leaves the
\* policy configuration and the request payload as they were; the only state it
\* changes is the two counters of the endpoint that was called.
C26_EvaluatorsAreReentrant ==
  [][/\ exclusive_group_prefixes' = exclusive_group_prefixes
     /\ request_json' = request_json
     /\ path' = path
     /\ \A q \in CountedPaths \ {path} :
          total'[q] = total[q] /\ denied'[q] = denied[q]]_vars

\* a denial at the namespace endpoint: its two counters moved, and the exclusive
\* prefixes are the configured ones
C26_Witness ==
  /\ AtEndpoint /\ path = NamespacePath
  /\ validation = "valid" /\ entered /\ ~raised
  /\ response.allowed = FALSE /\ response.uid = Req.uid
  /\ total[NamespacePath] = 1 /\ denied[NamespacePath] = 1
  /\ \A q \in CountedPaths \ {NamespacePath} : total[q] = 0 /\ denied[q] = 0
  /\ exclusive_group_prefixes = DefaultPrefixes

\* the calls answered so far
Calls == DOMAIN log
\* call i was answered with a deny of the evaluator's own
LoggedPolicyDeny(i) ==
  /\ log[i].valid
  /\ log[i].response.allowed = FALSE
  /\ log[i].response.message # "Invalid request"

C23_GroupMetrics ==
  LET calls == {i \in Calls : log[i].path = GroupPath}
  IN /\ total[GroupPath] = Cardinality(calls)
     /\ denied[GroupPath] =
          Cardinality({i \in calls : ~log[i].valid \/ LoggedPolicyDeny(i)})

\* the endpoints that keep counters
C27_Paths == {GroupPath, NamespacePath, IdentityPath, UserPath, SubscriptionPath}

\* C27: at the group, namespace, identity, user and subscription endpoints the
\* counters never decrease, a call of handle_request adds exactly 1 to total and
\* at most 1 to denied, and denied <= total in every reachable state.
C27_CounterInvariant ==
  /\ [](\A p \in C27_Paths : 0 <= denied[p] /\ denied[p] <= total[p])
  /\ [][/\ \A p \in C27_Paths : total'[p] >= total[p] /\ denied'[p] >= denied[p]
        /\ (pc = "ready" /\ path \in C27_Paths) =>
              /\ total'[path] = total[path] + 1
              /\ denied'[path] - denied[path] \in {0, 1}
              /\ \A q \in C27_Paths \ {path} :
                    total'[q] = total[q] /\ denied'[q] = denied[q]]_vars

\* three calls to the namespace endpoint, two of them denied
C27_Witness ==
  /\ Len(log) = 3 /\ pc = "done"
  /\ \A i \in Calls : log[i].path = NamespacePath
  /\ ~log[1].valid /\ LoggedPolicyDeny(2) /\ log[3].response.allowed = TRUE
  /\ total[NamespacePath] = 3 /\ denied[NamespacePath] = 2

\* every call sent has been answered, and all of them were in progress at once
C24_HandledConcurrently ==
  /\ pool.handled = pool.accepted /\ pool.handled >= 1
  /\ pool.peak = pool.handled

\* C24: when N requests to one endpoint are handled concurrently, the
\* endpoint's total counter ends at its initial value plus N and its denied
\* counter at its initial value plus the number of denied-path increments
\* performed.
C24_CountersCountEveryCall ==
  C24_HandledConcurrently =>
    \E w \in Workers :
      /\ pool.worker[w].total = pool.handled
      /\ pool.worker[w].denied = pool.denied_incs

====
